---- MODULE Spec2Model ----
(***************************************************************************)
(* little-busters: a command line tool that walks through zip archives of  *)
(* page images, flags the images whose resolution is too far below the     *)
(* average of the archive and, unless --dry-run is given, rewrites the     *)
(* archive without them (src/little-busters.py).                           *)
(*                                                                         *)
(* Three specifications share the variables and the actions:               *)
(*   Spec        main() over a batch of files,                             *)
(*   SpecRewrite create_archive() on any archive and any exclusion list,   *)
(*   SpecFn      detect_double_spreads() / detect_non_pages() on size      *)
(*               lists.                                                    *)
(*                                                                         *)
(* Numbers.  Python computes the averages and the ratios in floating       *)
(* point; the model computes them exactly, as fractions of integers that   *)
(* are compared without ever being divided.  A width is kept in quarter    *)
(* pixels (Px), so that the halving of line 47 stays exact.                *)
(***************************************************************************)
EXTENDS Integers, Sequences, FiniteSets

VARIABLES
    files,        \* main: the FILES argument, a sequence of paths
    dry_run,      \* main: the --dry-run flag
    threshold,    \* main: the --threshold option, a fraction [n, d]
    disk,         \* the file system: path -> contents of the file
    orig,         \* history: disk as it was when the program started
    pc,           \* the statement the program is at
    fi,           \* main: position of `file` in files (1-based)
    archive,      \* the open ZipFile: its entries, in central directory order
    raw,          \* history: the list get_sizes returned, before line 47 touches it
    sizes,        \* the list `sizes`, mutated in place by detect_double_spreads
    again,        \* SpecFn: a second correction pass over sizes, same average
    non_pages,    \* the list detect_non_pages returned: <<index, ratio>> pairs
    excluded,     \* create_archive: the positions to leave out (0-based)
    k,            \* create_archive: position of the loop of line 24 (1-based)
    staging,      \* create_archive: the files under temporary_directory
    new_archive,  \* create_archive: the entries written into new_archive
    hist,         \* history: the pipeline steps taken for the current file
    completed     \* history: positions in files whose pipeline ran to its end

vars == <<files, dry_run, threshold, disk, orig, pc, fi, archive, raw, sizes,
          again, non_pages, excluded, k, staging, new_archive, hist, completed>>

----------------------------------------------------------------------------
(* Bounds *)

\* The longest archive (entries) of Spec and SpecRewrite.
MaxEntries == 2

\* The longest size list of SpecFn, the three scenario lists aside.
MaxLen == 3

----------------------------------------------------------------------------
(* Exact arithmetic *)

\* a/b < c/d for a, c >= 0 and b, d > 0, by Euclid's algorithm: no product is
\* formed, so nothing leaves the range of the integers compared.
RECURSIVE FracLess(_, _, _, _)
FracLess(a, b, c, d) ==
    LET qa == a \div b
        qc == c \div d
        ra == a % b
        rc == c % d
    IN  IF qa # qc THEN qa < qc
        ELSE IF rc = 0 THEN FALSE
        ELSE IF ra = 0 THEN TRUE
        ELSE FracLess(d, rc, b, ra)

\* abs(1 - p/q) < t, the comparison of line 46, for a threshold t = n/d.
AbsDiffBelow(p, q, t) ==
    /\ FracLess(t.d - t.n, t.d, p, q)
    /\ FracLess(p, q, t.d + t.n, t.d)

\* A width of n pixels, in the quarter pixels the model counts widths in.
Px(n) == 4 * n

\* x[0] / 2 of line 47 on a width in quarter pixels.
Half(w) == w \div 2

RECURSIVE SumOf(_, _)
SumOf(s, c) == IF s = <<>> THEN 0 ELSE s[1][c] + SumOf(Tail(s), c)

----------------------------------------------------------------------------
(* The resolution heuristics: pure functions of the size list *)

\* A slip of line 13: the vertical mean summed over x[0] as well.
calculate_average_resolution_same_axis(s) ==
    [w |-> SumOf(s, 1), h |-> SumOf(s, 1) \div Px(1), count |-> Len(s)]

\* calculate_average_resolution: the two means, each kept as sum and count
\* (horizontal = w / count, vertical = h / count).
calculate_average_resolution(s) ==
    [w |-> SumOf(s, 1), h |-> SumOf(s, 2), count |-> Len(s)]

\* Lines 44-46: size is twice as wide as the average and as high as it.
\* size[0] / 2 / average[0] = size[0] * count / (2 * sum of widths).
IsDoubleSpread(size, average, t) ==
    /\ AbsDiffBelow(size[1] * average.count, 2 * average.w, t)
    /\ AbsDiffBelow(size[2] * average.count, average.h, t)

\* A slip of line 47: the halved size is bound to the loop variable and the
\* list keeps the size it had.
CorrectedNowhere(size) == size

\* Line 47: what a size classified as a double spread is overwritten with.
Corrected(size) == <<Half(size[1]), size[2]>>

\* Lines 43-47: one pass over the list against one average.
SpreadPass(s, average, t) ==
    [i \in 1..Len(s) |->
        IF IsDoubleSpread(s[i], average, t) THEN Corrected(s[i]) ELSE s[i]]

\* detect_double_spreads: the average of line 42, then the pass.
detect_double_spreads(s, t) ==
    SpreadPass(s, calculate_average_resolution(s), t)

\* Lines 58-59: size_diff = resolution / average_resolution, as a fraction
\* [n, d]: w * h / ((sw / count) * (sh / count)).
SizeDiff(size, average) ==
    [n |-> size[1] * size[2] * average.count * average.count,
     d |-> average.w * average.h]

\* A slip of line 60: the deviation taken in absolute value, so that an
\* oversized image is flagged as well.
IsNonPageEitherWay(size, average, t) ==
    LET r == SizeDiff(size, average)
    IN  \/ FracLess(r.n, r.d, t.d - t.n, t.d)
        \/ FracLess(t.d + t.n, t.d, r.n, r.d)

\* Line 60: 1 - size_diff > treshold, that is size_diff < 1 - treshold.
IsNonPage(size, average, t) ==
    LET r == SizeDiff(size, average)
    IN  FracLess(r.n, r.d, t.d - t.n, t.d)

\* Lines 56-62: the (index, size_diff) pairs of the flagged sizes, in list
\* order, the index counted from 0.
RECURSIVE NonPagesFrom(_, _, _, _)
NonPagesFrom(s, i, average, t) ==
    IF i > Len(s) THEN <<>>
    ELSE IF IsNonPage(s[i], average, t)
         THEN <<<<i - 1, SizeDiff(s[i], average)>>>>
              \o NonPagesFrom(s, i + 1, average, t)
         ELSE NonPagesFrom(s, i + 1, average, t)

detect_non_pages(s, t) ==
    NonPagesFrom(s, 1, calculate_average_resolution(s), t)

\* [x[0] for x in non_pages], line 99.
Indexes(np) == {np[i][1] : i \in 1..Len(np)}

----------------------------------------------------------------------------
(* Archives, images and the file system *)

\* The bytes an entry can hold: three images and something that is no image.
Data == {"tall", "wide", "thumb", "junk"}

\* Image.open(file) of line 70 succeeds on these bytes.
Decodable(d) == d # "junk"

\* image.size of line 71: (width, height), the width in quarter pixels.
ImageSize(d) ==
    CASE d = "tall"  -> <<Px(1000), 3000>>
      [] d = "wide"  -> <<Px(3000), 1000>>
      [] d = "thumb" -> <<Px(200), 300>>

\* A file name is a path, a sequence of components; an absolute path starts
\* with the component "/".
NameTable == <<"p1", "p2", "p3", "p4">>

\* The contents of a file: a zip archive with its entries in order, or bytes
\* zipfile cannot read (a corrupt, truncated or empty file).
ZipFileOf(entries) == [zip |-> TRUE, entries |-> entries]
NotAZip == [zip |-> FALSE, entries |-> <<>>]

\* archive.namelist(): the names in central directory order, repeats included.
namelist(a) == [i \in 1..Len(a) |-> a[i].name]

\* archive.getinfo(name), which archive.open(name) and archive.extract(name)
\* go through: zipfile keeps one entry per name, the last one read.
GetInfo(a, name) ==
    a[CHOOSE i \in 1..Len(a) :
        /\ a[i].name = name
        /\ \A j \in (i + 1)..Len(a) : a[j].name # name]

\* temporary_directory.name
TmpDir == <<"/", "tmp", "tmpd">>

\* os.path.join(temporary_directory.name, filename), filename relative.
Join(dir, name) == dir \o name

\* The arcname ZipFile.write gives a file written without one: the path of
\* the file with the leading separators removed.
RECURSIVE ArcName(_)
ArcName(path) ==
    IF path # <<>> /\ path[1] = "/" THEN ArcName(Tail(path)) ELSE path

\* The staging directory: a set of files [path, data].
Put(dir, path, d) ==
    {f \in dir : f.path # path} \cup {[path |-> path, data |-> d]}

ReadFile(dir, path) == (CHOOSE f \in dir : f.path = path).data

\* get_sizes: the size of the image each name opens, in namelist order.
get_sizes(a) ==
    [i \in 1..Len(a) |-> ImageSize(GetInfo(a, a[i].name).data)]

\* get_sizes raises when some entry does not decode.
AllDecodable(a) ==
    \A i \in 1..Len(a) : Decodable(GetInfo(a, a[i].name).data)

----------------------------------------------------------------------------
(* Inputs *)

\* --threshold, default 0.2 (line 78).
DefaultThreshold == [n |-> 1, d |-> 5]

\* The batches of Spec: no file, one file, two files.
Batches == {<<>>, <<"f1">>, <<"f1", "f2">>}

Range(s) == {s[i] : i \in 1..Len(s)}

SeqsUpTo(S, n) == UNION {[1..m -> S] : m \in 0..n}

\* Archives of Spec: any data, the i-th entry named after its position.
PageArchives ==
    {[i \in 1..Len(ds) |-> [name |-> <<NameTable[i]>>, data |-> ds[i]]] :
        ds \in SeqsUpTo(Data, MaxEntries)}

FileContents == {ZipFileOf(a) : a \in PageArchives} \cup {NotAZip}

----------------------------------------------------------------------------
(* main: the loop of line 86 over the files *)

file == files[fi]

\* An uncaught exception: nothing in the program catches one, so it leaves
\* the loop of line 86 and ends the process.
Raise == pc' = "crashed"

\* The end of the body of the loop of line 86: on to the next file, if any.
NextFile ==
    /\ completed' = completed \cup {fi}
    /\ fi' = fi + 1
    /\ pc' = IF fi + 1 > Len(files) THEN "done" ELSE "open"

\* Line 87: archive = ZipFile(file); BadZipFile when the file is no zip.
Open ==
    /\ pc = "open"
    /\ hist' = <<"open">>
    /\ IF disk[file].zip
       THEN /\ archive' = disk[file].entries
            /\ pc' = "get_sizes"
       ELSE /\ Raise
            /\ UNCHANGED archive
    /\ UNCHANGED <<files, dry_run, threshold, disk, orig, fi, raw, sizes, again,
                   non_pages, excluded, k, staging, new_archive, completed>>

\* Line 88: sizes = get_sizes(archive); Image.open raises on an entry that
\* is no image.
GetSizes ==
    /\ pc = "get_sizes"
    /\ hist' = Append(hist, "get_sizes")
    /\ IF AllDecodable(archive)
       THEN /\ sizes' = get_sizes(archive)
            /\ raw' = get_sizes(archive)
            /\ pc' = "spreads"
       ELSE /\ Raise
            /\ UNCHANGED <<sizes, raw>>
    /\ UNCHANGED <<files, dry_run, threshold, disk, orig, fi, archive, again,
                   non_pages, excluded, k, staging, new_archive, completed>>

\* Line 89: detect_double_spreads(sizes, threshold), in place; the division
\* by count of line 12 raises ZeroDivisionError on an archive with no entry.
DetectDoubleSpreads ==
    /\ pc = "spreads"
    /\ hist' = Append(hist, "spreads")
    /\ IF Len(sizes) = 0
       THEN /\ Raise
            /\ UNCHANGED sizes
       ELSE /\ sizes' = detect_double_spreads(sizes, threshold)
            /\ pc' = "non_pages"
    /\ UNCHANGED <<files, dry_run, threshold, disk, orig, fi, archive, raw,
                   again, non_pages, excluded, k, staging, new_archive,
                   completed>>

\* Line 90: non_pages = detect_non_pages(sizes, threshold).
DetectNonPages ==
    /\ pc = "non_pages"
    /\ hist' = Append(hist, "non_pages")
    /\ non_pages' = detect_non_pages(sizes, threshold)
    /\ pc' = "decide"
    /\ UNCHANGED <<files, dry_run, threshold, disk, orig, fi, archive, raw,
                   sizes, again, excluded, k, staging, new_archive, completed>>

\* A slip of line 98: the flag is not looked at.
ShouldRewriteDryRunToo == non_pages # <<>>

\* Lines 91 and 98: the archive is rewritten when some image was flagged and
\* --dry-run was not given.
ShouldRewrite == non_pages # <<>> /\ ~dry_run

\* Lines 91-99: report the flagged pages (click.echo, which changes nothing
\* modelled here), then either enter create_archive (lines 21-23: an empty
\* temporary file, an empty temporary directory, an empty new archive) or
\* go on to the next file.
Decide ==
    /\ pc = "decide"
    /\ IF ShouldRewrite
       THEN /\ excluded' = Indexes(non_pages)
            /\ k' = 1
            /\ staging' = {}
            /\ new_archive' = <<>>
            /\ pc' = "ca_loop"
            /\ UNCHANGED <<fi, completed>>
       ELSE /\ NextFile
            /\ UNCHANGED <<excluded, k, staging, new_archive>>
    /\ UNCHANGED <<files, dry_run, threshold, disk, orig, archive, raw, sizes,
                   again, non_pages, hist>>

----------------------------------------------------------------------------
(* create_archive: the loop of line 24 *)

\* Lines 24-25: the next name of archive.namelist(); the loop ends after the
\* last one, and a position in excluded is passed over.
CA_Loop ==
    /\ pc = "ca_loop"
    /\ IF k > Len(archive)
       THEN pc' = "ca_return" /\ UNCHANGED k
       ELSE IF (k - 1) \in excluded
            THEN k' = k + 1 /\ UNCHANGED pc
            ELSE pc' = "ca_extract" /\ UNCHANGED k
    /\ UNCHANGED <<files, dry_run, threshold, disk, orig, fi, archive, raw,
                   sizes, again, non_pages, excluded, staging, new_archive,
                   hist, completed>>

\* Line 26: archive.extract(filename, path=temporary_directory.name) writes
\* the member of that name under the temporary directory, or raises OSError
\* (no space left, say).
CA_Extract ==
    /\ pc = "ca_extract"
    /\ \E ok \in BOOLEAN :
        IF ok
        THEN /\ staging' = Put(staging, Join(TmpDir, namelist(archive)[k]),
                               GetInfo(archive, namelist(archive)[k]).data)
             /\ pc' = "ca_write"
        ELSE /\ Raise
             /\ UNCHANGED staging
    /\ UNCHANGED <<files, dry_run, threshold, disk, orig, fi, archive, raw,
                   sizes, again, non_pages, excluded, k, new_archive, hist,
                   completed>>

\* Line 27: new_archive.write(os.path.join(temporary_directory.name,
\* filename)), no arcname given, or OSError.
CA_Write ==
    /\ pc = "ca_write"
    /\ \E ok \in BOOLEAN :
        IF ok
        THEN LET path == Join(TmpDir, namelist(archive)[k])
             IN  /\ new_archive' =
                        Append(new_archive, [name |-> ArcName(path),
                                             data |-> ReadFile(staging, path)])
                 /\ k' = k + 1
                 /\ pc' = "ca_loop"
        ELSE /\ Raise
             /\ UNCHANGED <<new_archive, k>>
    /\ UNCHANGED <<files, dry_run, threshold, disk, orig, fi, archive, raw,
                   sizes, again, non_pages, excluded, staging, hist,
                   completed>>

\* Lines 28-29: the temporary directory is removed and the temporary file
\* returned.  new_archive is never closed by the code: CPython finalizes it
\* when the function returns, which writes the central directory and flushes
\* the file, so the file returned holds the entries written.
CA_Return ==
    /\ pc = "ca_return"
    /\ staging' = {}
    /\ pc' = "copyfile"
    /\ UNCHANGED <<files, dry_run, threshold, disk, orig, fi, archive, raw,
                   sizes, again, non_pages, excluded, k, new_archive, hist,
                   completed>>

----------------------------------------------------------------------------
(* main, line 100: copyfile(new_file.name, file) *)

\* shutil.copyfile opens the source for reading and the destination for
\* writing, which truncates the destination; either open can raise OSError,
\* and then the destination is as it was.
CopyOpen ==
    /\ pc = "copyfile"
    /\ \E ok \in BOOLEAN :
        IF ok
        THEN /\ disk' = [disk EXCEPT ![file] = NotAZip]
             /\ pc' = "copy_data"
        ELSE /\ Raise
             /\ UNCHANGED disk
    /\ UNCHANGED <<files, dry_run, threshold, orig, fi, archive, raw, sizes,
                   again, non_pages, excluded, k, staging, new_archive, hist,
                   completed>>

\* shutil.copyfile then copies the bytes; a write can raise OSError, and the
\* destination is left with the part written so far, which is no archive.
CopyData ==
    /\ pc = "copy_data"
    /\ \E ok \in BOOLEAN :
        IF ok
        THEN /\ disk' = [disk EXCEPT ![file] = ZipFileOf(new_archive)]
             /\ NextFile
        ELSE /\ Raise
             /\ UNCHANGED <<disk, fi, completed>>
    /\ UNCHANGED <<files, dry_run, threshold, orig, archive, raw, sizes,
                   again, non_pages, excluded, k, staging, new_archive, hist>>

----------------------------------------------------------------------------
(* Spec: main on a batch of files *)

Init ==
    /\ files \in Batches
    /\ dry_run \in BOOLEAN
    /\ threshold = DefaultThreshold
    /\ disk \in [Range(files) -> FileContents]
    /\ orig = disk
    /\ pc = IF files = <<>> THEN "done" ELSE "open"
    /\ fi = 1
    /\ archive = <<>>
    /\ raw = <<>>
    /\ sizes = <<>>
    /\ again = <<>>
    /\ non_pages = <<>>
    /\ excluded = {}
    /\ k = 1
    /\ staging = {}
    /\ new_archive = <<>>
    /\ hist = <<>>
    /\ completed = {}

Next ==
    \/ Open
    \/ GetSizes
    \/ DetectDoubleSpreads
    \/ DetectNonPages
    \/ Decide
    \/ CA_Loop
    \/ CA_Extract
    \/ CA_Write
    \/ CA_Return
    \/ CopyOpen
    \/ CopyData

Spec == Init /\ [][Next]_vars

----------------------------------------------------------------------------
(* SpecRewrite: create_archive on any archive and any list of positions *)

\* Archives of SpecRewrite: two names and two contents, so that a name can
\* occur more than once, as the zip format allows.
RwEntries == [name : {<<"p1">>, <<"p2">>}, data : {"tall", "thumb"}]

RwArchives == SeqsUpTo(RwEntries, MaxEntries)

InitRw ==
    /\ archive \in RwArchives
    /\ excluded \in SUBSET (0..(Len(archive) - 1))
    /\ pc = "ca_loop"
    /\ k = 1
    /\ staging = {}
    /\ new_archive = <<>>
    /\ files = <<>>
    /\ dry_run = FALSE
    /\ threshold = DefaultThreshold
    /\ disk = <<>>
    /\ orig = <<>>
    /\ fi = 1
    /\ raw = <<>>
    /\ sizes = <<>>
    /\ again = <<>>
    /\ non_pages = <<>>
    /\ hist = <<>>
    /\ completed = {}

NextRw ==
    \/ CA_Loop
    \/ CA_Extract
    \/ CA_Write
    \/ CA_Return

SpecRewrite == InitRw /\ [][NextRw]_vars

----------------------------------------------------------------------------
(* SpecFn: the two detection functions on size lists *)

FnWidths == {1, 2, 3, 5}
FnHeights == {1, 2, 5}
FnSizes == {<<Px(w), h>> : w \in FnWidths, h \in FnHeights}

Repeat(x, n) == [i \in 1..n |-> x]

\* Nine pages and one double spread.
ScenarioSpread ==
    Repeat(<<Px(1000), 1500>>, 9) \o <<<<Px(2000), 1500>>>>

\* Nine pages and one thumbnail.
ScenarioThumb ==
    Repeat(<<Px(1000), 1500>>, 9) \o <<<<Px(200), 300>>>>

\* Nine pages and one double spread of a slightly smaller print.
ScenarioSmallSpread ==
    Repeat(<<Px(1000), 1000>>, 9) \o <<<<Px(1800), 850>>>>

SizeLists ==
    (SeqsUpTo(FnSizes, MaxLen) \ {<<>>})
        \cup {ScenarioSpread, ScenarioThumb, ScenarioSmallSpread}

OneFifth == [n |-> 1, d |-> 5]
OneThird == [n |-> 1, d |-> 3]
OneHalf == [n |-> 1, d |-> 2]
Thresholds == {OneFifth, OneThird, OneHalf}

\* The correction pass of lines 43-47 run once more over the corrected list,
\* against the average of the list as it was before the first pass.
SecondPass ==
    /\ pc = "decide"
    /\ again' = SpreadPass(sizes, calculate_average_resolution(raw), threshold)
    /\ pc' = "fn_done"
    /\ UNCHANGED <<files, dry_run, threshold, disk, orig, fi, archive, raw,
                   sizes, non_pages, excluded, k, staging, new_archive, hist,
                   completed>>

InitFn ==
    /\ sizes \in SizeLists
    /\ raw = sizes
    /\ threshold \in Thresholds
    /\ pc = "spreads"
    /\ files = <<>>
    /\ dry_run = TRUE
    /\ disk = <<>>
    /\ orig = <<>>
    /\ fi = 1
    /\ archive = <<>>
    /\ again = <<>>
    /\ non_pages = <<>>
    /\ excluded = {}
    /\ k = 1
    /\ staging = {}
    /\ new_archive = <<>>
    /\ hist = <<>>
    /\ completed = {}

NextFn ==
    \/ DetectDoubleSpreads
    \/ DetectNonPages
    \/ SecondPass

SpecFn == InitFn /\ [][NextFn]_vars

----------------------------------------------------------------------------
(* Properties *)

\* The entries of a at the positions (0-based) not in ex, in order.
RECURSIVE KeptFrom(_, _, _)
KeptFrom(a, i, ex) ==
    IF i > Len(a) THEN <<>>
    ELSE IF (i - 1) \in ex THEN KeptFrom(a, i + 1, ex)
         ELSE <<a[i]>> \o KeptFrom(a, i + 1, ex)

Kept(a, ex) == KeptFrom(a, 1, ex)

DataOf(a) == [i \in 1..Len(a) |-> a[i].data]

IsPrefix(s, t) ==
    /\ Len(s) =< Len(t)
    /\ \A i \in 1..Len(s) : s[i] = t[i]

PipelineOrder == <<"open", "get_sizes", "spreads", "non_pages">>

Detected == pc \in {"decide", "fn_done"}

\* C1: when a step of the rewrite fails, at whatever point, the archive file
\* being processed holds what it held before the program touched it.
C1_OriginalIntactOnFailure ==
    pc = "crashed" => disk[file] = orig[file]

\* C2: the archive create_archive returns holds exactly the contents of the
\* entries of the original that are not excluded, in the original order.
C2_KeptContentsInOrder ==
    pc = "copyfile" => DataOf(new_archive) = DataOf(Kept(archive, excluded))

\* C3: every entry create_archive writes is stored under the name the entry
\* has in the original archive.
C3_OriginalNames ==
    \A i \in 1..Len(new_archive) :
        new_archive[i].name = Kept(archive, excluded)[i].name

\* C4: for each file the steps open, get_sizes, detect_double_spreads,
\* detect_non_pages happen in that order, each once, and a file on disk is
\* written only by the run on that file, after all four, with a non-empty
\* non_pages and without --dry-run.
C4_PipelineOrder ==
    [][/\ IsPrefix(hist', PipelineOrder)
       /\ disk' # disk =>
            /\ hist = PipelineOrder
            /\ pc \in {"copyfile", "copy_data"}
            /\ non_pages # <<>>
            /\ ~dry_run
            /\ \A f \in DOMAIN disk : f # file => disk'[f] = disk[f]]_vars

\* C4, witness: a run has gone through the four steps and is writing its file.
C4_Witness ==
    /\ pc = "copy_data"
    /\ hist = PipelineOrder
    /\ disk[file] # orig[file]

\* C5: when the program has ended, every file of the batch other than one
\* whose processing failed has been processed to the end.
C5_BatchIsolation ==
    pc \in {"done", "crashed"} =>
        \A j \in 1..Len(files) :
            j \in completed \/ (pc = "crashed" /\ j = fi)

\* C6: a size that detect_double_spreads classifies as a double spread is
\* not flagged by the detect_non_pages call that follows.
C6_SpreadNotFlagged ==
    Detected =>
        \A i \in 1..Len(raw) :
            IsDoubleSpread(raw[i], calculate_average_resolution(raw), threshold)
                => (i - 1) \notin Indexes(non_pages)

\* C7: every size detect_non_pages flags has an area strictly below the
\* average area (mean width times mean height of the list it is given), and
\* below (1 - threshold) times it.
C7_FlaggedBelowAverage ==
    Detected =>
        \A i \in Indexes(non_pages) :
            LET a == calculate_average_resolution(sizes)
                area == sizes[i + 1][1] * sizes[i + 1][2]
            IN  /\ area * a.count * a.count < a.w * a.h
                /\ FracLess(area * a.count * a.count, a.w * a.h,
                            threshold.d - threshold.n, threshold.d)

\* C7, witness: detect_non_pages has flagged some size and left another.
C7_Witness ==
    /\ Detected
    /\ non_pages # <<>>
    /\ Len(non_pages) < Len(sizes)

\* The sizes the first pass halved are those it classified on the raw list.
HalvedByFirstPass ==
    {i \in 1..Len(raw) :
        IsDoubleSpread(raw[i], calculate_average_resolution(raw), threshold)}

ReclassifiedBySecondPass ==
    {i \in HalvedByFirstPass :
        IsDoubleSpread(sizes[i], calculate_average_resolution(raw), threshold)}

\* C8 as claimed: for every threshold, a second pass against the same
\* average classifies no size the first pass halved.
C8_SecondPassAnyThreshold ==
    pc = "fn_done" => ReclassifiedBySecondPass = {}

\* C8 as amended: for every threshold of at most 1/3, a second pass against
\* the same average classifies no size the first pass halved, and so leaves
\* each of them as the first pass left it.
C8_SecondPassSmallThreshold ==
    (pc = "fn_done" /\ 3 * threshold.n =< threshold.d) =>
        /\ ReclassifiedBySecondPass = {}
        /\ \A i \in HalvedByFirstPass : again[i] = sizes[i]

\* C8, witness: a threshold of at most 1/3, both passes done, the first one
\* having halved a size.
C8_Witness ==
    /\ pc = "fn_done"
    /\ 3 * threshold.n =< threshold.d
    /\ HalvedByFirstPass # {}

\* The average area the detector computes, in square pixels (rounded down).
AvgAreaPx(s) ==
    LET a == calculate_average_resolution(s)
    IN  (a.w * a.h) \div (Px(1) * a.count * a.count)

\* x is within one percent of y.
Near(x, y) == 100 * x >= 99 * y /\ 100 * x =< 101 * y

\* n/d rounds to tt ten-thousandths.
RoundsTo(r, tt) ==
    /\ ~FracLess(r.n, r.d, 2 * tt - 1, 20000)
    /\ FracLess(r.n, r.d, 2 * tt + 1, 20000)

ThumbCase == raw = ScenarioThumb /\ threshold = OneFifth /\ Detected

\* C9 as claimed: on nine (1000,1500) and one (200,300) with threshold 0.2
\* no size is changed, the average area is about 1,410,000, the ratio of
\* the small size about 0.0426, and index 9 is flagged.
C9_ThumbScenarioAsClaimed ==
    ThumbCase =>
        /\ sizes = raw
        /\ Near(AvgAreaPx(sizes), 1410000)
        /\ \E i \in 1..Len(non_pages) :
            non_pages[i][1] = 9 /\ RoundsTo(non_pages[i][2], 426)

\* C9 as amended: on that list no size is changed, the average area is
\* 920 * 1380 = 1,269,600, the ratio of the small size is 0.0473 to four
\* places, and index 9 is the one index flagged.
C9_ThumbScenario ==
    ThumbCase =>
        /\ sizes = raw
        /\ AvgAreaPx(sizes) = 1269600
        /\ Len(non_pages) = 1
        /\ non_pages[1][1] = 9
        /\ RoundsTo(non_pages[1][2], 473)

\* C9, witness: the scenario has been run through both functions.
C9_Witness == ThumbCase /\ non_pages # <<>>

\* C10: detect_non_pages leaves some size unflagged, and no archive on disk
\* is replaced by an archive with no entry.
C10_NeverEmptied ==
    /\ (hist = PipelineOrder /\ pc # "crashed") => Len(non_pages) < Len(sizes)
    /\ \A f \in DOMAIN disk :
        (disk[f].zip /\ disk[f] # orig[f]) => disk[f].entries # <<>>

====
